---- MODULE Spec2Model ----
(***************************************************************************)
(* Overlap counting of episcanpy/count_matrix/_bld_atac_mtx.py:            *)
(* get_barcodes() and count(), the single pass of a fragments file against *)
(* a sorted feature list with one shared cursor, feature_idx.              *)
(*                                                                         *)
(* A line of the fragments file is a sequence of one-character strings, so *)
(* that str.strip, str.split and int() are modelled by what they do.       *)
(* Python indices are kept 0-based; a TLA+ sequence is read at index + 1.  *)
(***************************************************************************)
EXTENDS Integers, Sequences, FiniteSets, TLC

\* ------------------------------------------------------------------ bounds
\* Coordinates of the enumerated features and fragments are 0..MaxCoord.
MaxCoord == 2
\* The enumerated feature lists hold at most MaxFeatures features.
MaxFeatures == 3
\* A fragments file holds at most MaxLines lines.
MaxLines == 2

\* ------------------------------------------------------------------- text
TAB == "\t"
NL == "\n"
\* Python's None, True and False where a variable holds any of the three.
None == "None"
True == "True"
False == "False"

chr1 == <<"c", "h", "r", "1">>
chr2 == <<"c", "h", "r", "2">>
chr3 == <<"c", "h", "r", "3">>
bc1 == <<"b", "c", "1">>
bc2 == <<"b", "c", "2">>

\* The default of the parameter comment.
comment == <<"#">>

\* Characters str.strip() removes.
Whitespace == {" ", "\t", "\n", "\r"}

\* line.startswith(prefix)
startswith(s, prefix) ==
    /\ Len(s) >= Len(prefix)
    /\ SubSeq(s, 1, Len(prefix)) = prefix

RECURSIVE lstrip(_)
lstrip(s) ==
    IF s # <<>> /\ Head(s) \in Whitespace THEN lstrip(Tail(s)) ELSE s

RECURSIVE rstrip(_)
rstrip(s) ==
    IF s # <<>> /\ s[Len(s)] \in Whitespace
    THEN rstrip(SubSeq(s, 1, Len(s) - 1))
    ELSE s

\* line.strip(): leading and trailing whitespace removed, tabs included.
strip(s) == rstrip(lstrip(s))

\* line.split("\t"): the pieces between tabs; a line without a tab is one piece.
RECURSIVE split(_)
split(s) ==
    IF \E i \in 1..Len(s) : s[i] = TAB
    THEN LET i == CHOOSE k \in 1..Len(s) :
                      s[k] = TAB /\ \A m \in 1..(k - 1) : s[m] # TAB
         IN  <<SubSeq(s, 1, i - 1)>> \o split(SubSeq(s, i + 1, Len(s)))
    ELSE <<s>>

DigitVal == ("0" :> 0) @@ ("1" :> 1) @@ ("2" :> 2) @@ ("3" :> 3) @@ ("4" :> 4)
            @@ ("5" :> 5) @@ ("6" :> 6) @@ ("7" :> 7) @@ ("8" :> 8) @@ ("9" :> 9)

RECURSIVE digits(_)
digits(s) ==
    IF s = <<>> THEN 0 ELSE 10 * digits(SubSeq(s, 1, Len(s) - 1)) + DigitVal[s[Len(s)]]

\* int(text): surrounding whitespace is ignored, the rest is decimal.
int(s) == digits(strip(s))

\* The decimal text of n, as the files hold it.
RECURSIVE str(_)
str(n) ==
    LET d == CHOOSE c \in DOMAIN DigitVal : DigitVal[c] = n % 10
    IN  IF n < 10 THEN <<d>> ELSE str(n \div 10) \o <<d>>

\* One line of a fragments file: chrom, start, stop, barcode, then `extra`
\* further columns (the count and strand columns some tools write), then "\n".
FragmentLine(chrom, start, stop, bc, extra) ==
    chrom \o <<TAB>> \o str(start) \o <<TAB>> \o str(stop) \o <<TAB>> \o bc
    \o (IF extra THEN <<TAB, "1">> ELSE <<>>) \o <<NL>>

\* A fragment as the file's writer has it, with the line that holds it.
Fragment(chrom, start, stop, bc, extra) ==
    [chrom |-> chrom, start |-> start, stop |-> stop, barcode |-> bc,
     line |-> FragmentLine(chrom, start, stop, bc, extra)]

\* A line of the leading comment block: no fragment.
CommentLine ==
    [chrom |-> <<>>, start |-> 0, stop |-> 0, barcode |-> <<>>,
     line |-> comment \o <<NL>>]

IsComment(rec) == startswith(rec.line, comment)

\* ------------------------------------------------------------------ state
VARIABLES
    features,            \* count(features): list of [chrom, start, stop]
    valid_bcs,           \* count(valid_bcs): list of barcodes
    fast,                \* count(fast): dense (TRUE) or sparse (FALSE) table
    chrom_mapping,       \* chromosome name -> rank by first appearance
    bc_mapping,          \* barcode -> row of the table
    feature_idx,         \* the cursor into features
    count_mtx,           \* the dense table (None unless fast)
    count_mtx_sparse,    \* the lil_matrix (None if fast)
    check_for_comments,  \* still inside the leading comment block
    use_strip,           \* None until the first data line, then True or False
    pc,                  \* "loop", "break", "IndexError" or "return"
    barcodes,            \* get_barcodes(): the set of barcodes collected
    gb_check_for_comments, \* get_barcodes(): its check_for_comments
    gb_use_strip,        \* get_barcodes(): its use_strip
    fh,                  \* the lines of the file, where the file is a given one;
                         \* <<>> where its lines are drawn as they are read
    n_lines,             \* lines of the file passed so far (read or left unread)
    in_order,            \* the file holds its fragments sorted by rank, then start
    sort_key,            \* if in_order: <<rank, start>> of the last ranked fragment
    n_overlaps           \* if in_order: per (barcode, feature), the fragments so
                         \* far with that barcode that overlap the feature

vars == <<features, valid_bcs, fast, chrom_mapping, bc_mapping, feature_idx,
          count_mtx, count_mtx_sparse, check_for_comments, use_strip, pc,
          barcodes, gb_check_for_comments, gb_use_strip,
          fh, n_lines, sort_key, in_order, n_overlaps>>

\* ----------------------------------------------------------- count tables
\* [[0 for _ in range(len(features))] for i in range(len(valid_bcs))]
DenseNew(n_rows, n_cols) == [i \in 1..n_rows |-> [j \in 1..n_cols |-> 0]]

\* count_mtx[row][col] += 1
DenseInc(M, row, col) == [M EXCEPT ![row + 1][col + 1] = @ + 1]

\* lil_matrix((n_rows, n_cols)): per row the sorted column indices of the
\* stored cells (rows) and their values (data).
LilNew(n_rows, n_cols) ==
    [shape |-> <<n_rows, n_cols>>,
     rows |-> [i \in 1..n_rows |-> <<>>],
     data |-> [i \in 1..n_rows |-> <<>>]]

\* M[row, col]: the stored value, 0 for a cell that is not stored.
LilGet(M, row, col) ==
    LET cols == M.rows[row + 1]
    IN  IF \E k \in 1..Len(cols) : cols[k] = col
        THEN M.data[row + 1][CHOOSE k \in 1..Len(cols) : cols[k] = col]
        ELSE 0

\* M[row, col] = v, v # 0: overwrite the stored cell or insert it in column order.
LilSet(M, row, col, v) ==
    LET cols == M.rows[row + 1]
        vals == M.data[row + 1]
        pos == Cardinality({k \in 1..Len(cols) : cols[k] < col})
    IN  IF \E k \in 1..Len(cols) : cols[k] = col
        THEN [M EXCEPT !.data[row + 1][pos + 1] = v]
        ELSE [M EXCEPT
                !.rows[row + 1] =
                    SubSeq(cols, 1, pos) \o <<col>> \o SubSeq(cols, pos + 1, Len(cols)),
                !.data[row + 1] =
                    SubSeq(vals, 1, pos) \o <<v>> \o SubSeq(vals, pos + 1, Len(vals))]

\* A sparse table that stores 1 where it should add 1: C4 does not hold of it.
LilInc_Store(M, row, col) == LilSet(M, row, col, 1)

\* count_mtx_sparse[row, col] += 1
LilInc(M, row, col) == LilSet(M, row, col, LilGet(M, row, col) + 1)

\* The increment of either backend.
Hit(fastflag, M, row, col) ==
    IF fastflag THEN DenseInc(M, row, col) ELSE LilInc(M, row, col)

\* lil_matrix.toarray(): every cell of the shape, stored or not.
toarray(M) ==
    [i \in 1..M.shape[1] |-> [j \in 1..M.shape[2] |-> LilGet(M, i - 1, j - 1)]]

\* ------------------------------------------------------- lookup tables
\* Ranks taken from a fixed list of names, whatever the features: C9 does not
\* hold of it.
ChromMapping_Fixed(feats, mapping) ==
    (chr1 :> 0) @@ (chr2 :> 1) @@ (chr3 :> 2)

\* The loop that ranks chromosome names by first appearance in features.
RECURSIVE ChromMapping(_, _)
ChromMapping(feats, mapping) ==
    IF feats = <<>> THEN mapping
    ELSE LET chrom == Head(feats)[1]
         IN  IF chrom \notin DOMAIN mapping
             THEN ChromMapping(Tail(feats),
                               mapping @@ (chrom :> Cardinality(DOMAIN mapping)))
             ELSE ChromMapping(Tail(feats), mapping)

\* {bc: i for i, bc in enumerate(valid_bcs)}: a repeated barcode keeps its last index.
BcMapping(bcs) ==
    [bc \in {bcs[i] : i \in 1..Len(bcs)} |->
        CHOOSE i \in 0..(Len(bcs) - 1) :
            /\ bcs[i + 1] = bc
            /\ \A k \in (i + 1)..(Len(bcs) - 1) : bcs[k + 1] # bc]

\* set(valid_bcs)
valid_bcs_set == {valid_bcs[i] : i \in 1..Len(valid_bcs)}

\* --------------------------------------------------------- the loop body
\* The fields of a line, and use_strip after it: the first data line is
\* stripped and decides, from its field count, whether later lines are.
ParseLine(strip_flag, line) ==
    IF strip_flag = None
    THEN LET line_split == split(strip(line))
         IN  [line_split |-> line_split,
              use_strip |-> IF Len(line_split) = 4 THEN True ELSE False]
    ELSE IF strip_flag = False
    THEN [line_split |-> split(line), use_strip |-> strip_flag]
    ELSE [line_split |-> split(strip(line)), use_strip |-> strip_flag]

\* while feature_idx < len(features) and chrom_int > rank of its feature
RECURSIVE SkipChromosomes(_, _)
SkipChromosomes(idx, chrom_int) ==
    IF idx < Len(features) /\ chrom_int > chrom_mapping[features[idx + 1][1]]
    THEN SkipChromosomes(idx + 1, chrom_int)
    ELSE idx

\* An `if` in the place of the `while`: C10 does not hold of it.
SkipPassed_Once(idx, start, chrom_int) ==
    IF /\ idx < Len(features)
       /\ start > features[idx + 1][3]
       /\ chrom_int = chrom_mapping[features[idx + 1][1]]
    THEN idx + 1
    ELSE idx

\* while feature_idx < len(features) and start > its stop and same chromosome
RECURSIVE SkipPassed(_, _, _)
SkipPassed(idx, start, chrom_int) ==
    IF /\ idx < Len(features)
       /\ start > features[idx + 1][3]
       /\ chrom_int = chrom_mapping[features[idx + 1][1]]
    THEN SkipPassed(idx + 1, start, chrom_int)
    ELSE idx

\* No follow-up at all: C2 does not hold of it.
FollowUp_Off(fastflag, M, row, tmp_idx, start, stop, chrom_int) == M

\* The follow-up loop over tmp_idx: one hit per further feature, up to the
\* first that does not overlap or lies on another chromosome.
RECURSIVE FollowUp(_, _, _, _, _, _, _)
FollowUp(fastflag, M, row, tmp_idx, start, stop, chrom_int) ==
    IF tmp_idx < Len(features)
    THEN LET is_overlapping == ~(stop < features[tmp_idx + 1][2]
                                 \/ start > features[tmp_idx + 1][3])
             on_same_chrom == chrom_int = chrom_mapping[features[tmp_idx + 1][1]]
         IN  IF is_overlapping /\ on_same_chrom
             THEN FollowUp(fastflag, Hit(fastflag, M, row, tmp_idx), row,
                           tmp_idx + 1, start, stop, chrom_int)
             ELSE M
    ELSE M

\* The overlap branch: a hit for the cursor's feature, then the follow-up.
Overlap(fastflag, M, row, idx, start, stop, chrom_int) ==
    FollowUp(fastflag, Hit(fastflag, M, row, idx), row, idx + 1, start, stop, chrom_int)

\* A loop that goes on where it should break: C6 does not hold of it.
Outcome_NoBreak(idx, M, strip_flag, comments_flag, exit) ==
    [feature_idx |-> idx, mtx |-> M, use_strip |-> strip_flag,
     check_for_comments |-> comments_flag,
     exit |-> IF exit = "break" THEN "continue" ELSE exit]

\* A cursor set back to 0 for the next line: C8 does not hold of it.
Outcome_Reset(idx, M, strip_flag, comments_flag, exit) ==
    [feature_idx |-> IF exit = "continue" THEN 0 ELSE idx, mtx |-> M,
     use_strip |-> strip_flag, check_for_comments |-> comments_flag, exit |-> exit]

\* What an iteration leaves behind, and how it ends: "continue" (also at the
\* end of the body), "break" or "IndexError".
Outcome(idx, M, strip_flag, comments_flag, exit) ==
    [feature_idx |-> idx, mtx |-> M, use_strip |-> strip_flag,
     check_for_comments |-> comments_flag, exit |-> exit]

\* A half-open test, a fragment that ends on the feature's start in front of
\* it: C5 does not hold of it.
in_front_of_feature_HalfOpen(stop, idx) == stop <= features[idx + 1][2]

\* fragment in front of feature
in_front_of_feature(stop, idx) == stop < features[idx + 1][2]

\* fragment behind feature
behind_feature(start, idx) == start > features[idx + 1][3]

\* The interval part of the body, from start = int(line_split[1]) on.
Intervals(fastflag, idx, M, strip_flag, line_split, chrom_int) ==
    LET start == int(line_split[2])
        stop == int(line_split[3])
        row == bc_mapping[line_split[4]]
    IN  IF in_front_of_feature(stop, idx)
        THEN Outcome(idx, M, strip_flag, FALSE, "continue")
        ELSE IF behind_feature(start, idx)
        THEN LET nxt == SkipPassed(idx, start, chrom_int)
             IN  IF nxt >= Len(features)
                 THEN Outcome(nxt, M, strip_flag, FALSE, "break")
                 ELSE IF chrom_int # chrom_mapping[features[nxt + 1][1]]
                 THEN Outcome(nxt, M, strip_flag, FALSE, "continue")
                 ELSE IF ~(stop < features[nxt + 1][2])
                 THEN Outcome(nxt, Overlap(fastflag, M, row, nxt, start, stop, chrom_int),
                              strip_flag, FALSE, "continue")
                 ELSE Outcome(nxt, M, strip_flag, FALSE, "continue")
        ELSE Outcome(idx, Overlap(fastflag, M, row, idx, start, stop, chrom_int),
                     strip_flag, FALSE, "continue")

\* No fragment taken to be on a previous chromosome: C7 does not hold of it.
fragment_on_previous_chromosome_Never(chrom_int, idx) == FALSE

\* fragment on previous chromosome
fragment_on_previous_chromosome(chrom_int, idx) ==
    chrom_int < chrom_mapping[features[idx + 1][1]]

\* One iteration of `for line in fh` of count().
LoopBody(fastflag, idx, M, strip_flag, comments_flag, line) ==
    IF comments_flag /\ startswith(line, comment)
    THEN Outcome(idx, M, strip_flag, comments_flag, "continue")
    ELSE
    LET parsed == ParseLine(strip_flag, line)
        line_split == parsed.line_split
        bc == line_split[4]
        chrom == line_split[1]
    IN  IF bc \notin valid_bcs_set
        THEN Outcome(idx, M, parsed.use_strip, FALSE, "continue")
        ELSE IF chrom \notin DOMAIN chrom_mapping
        THEN Outcome(idx, M, parsed.use_strip, FALSE, "continue")
        ELSE IF idx >= Len(features)
        THEN \* features[feature_idx] out of range
             Outcome(idx, M, parsed.use_strip, FALSE, "IndexError")
        ELSE
        LET chrom_int == chrom_mapping[chrom]
            here == chrom_mapping[features[idx + 1][1]]
        IN  IF fragment_on_previous_chromosome(chrom_int, idx)
            THEN Outcome(idx, M, parsed.use_strip, FALSE, "continue")
            ELSE IF chrom_int > here
            THEN \* feature on previous chromosome
                 LET nxt == SkipChromosomes(idx, chrom_int)
                 IN  IF nxt >= Len(features)
                     THEN Outcome(nxt, M, parsed.use_strip, FALSE, "break")
                     ELSE Intervals(fastflag, nxt, M, parsed.use_strip,
                                    line_split, chrom_int)
            ELSE Intervals(fastflag, idx, M, parsed.use_strip, line_split, chrom_int)

\* One iteration of `for line in fh` of get_barcodes(): the barcode added, if any.
BarcodeOf(strip_flag, comments_flag, line) ==
    IF comments_flag /\ startswith(line, comment)
    THEN [skipped |-> TRUE, use_strip |-> strip_flag, check_for_comments |-> comments_flag]
    ELSE LET parsed == ParseLine(strip_flag, line)
         IN  [skipped |-> FALSE, bc |-> parsed.line_split[4],
              use_strip |-> parsed.use_strip, check_for_comments |-> FALSE]

\* ----------------------------------------------------------------- inputs
\* Chromosome names in the (case-insensitive) lexical order the callers sort by.
ChromNames == <<chr1, chr2, chr3>>
NameIndex(chrom) == CHOOSE i \in 1..Len(ChromNames) : ChromNames[i] = chrom

\* features.sort_values(by=["chr", "start", "stop"]) of the callers.
FeatureLe(f, g) ==
    \/ NameIndex(f[1]) < NameIndex(g[1])
    \/ /\ f[1] = g[1]
       /\ \/ f[2] < g[2]
          \/ f[2] = g[2] /\ f[3] <= g[3]

\* The list as the callers pass it: sorted.
IsSortedFeatures(fs) ==
    \A i \in 1..(Len(fs) - 1) : FeatureLe(fs[i], fs[i + 1])

\* No feature twice.
NoRepeat(fs) ==
    \A i \in 1..(Len(fs) - 1) : fs[i] # fs[i + 1]

CoordIntervals == {iv \in (0..MaxCoord) \X (0..MaxCoord) : iv[1] <= iv[2]}

\* A feature over every coordinate and a feature over one.
TailIntervals == {<<0, MaxCoord>>, <<1, 1>>}

PointIntervals == {<<k, k>> : k \in 0..MaxCoord}

\* Features on chr1 over every interval, on chr2 over one coordinate.
FeaturePool ==
    {<<chr1, iv[1], iv[2]>> : iv \in CoordIntervals} \cup {<<chr2, 1, 1>>}

\* A list count() is given by a caller that does not sort: chr1 again behind chr2.
Interleaved == <<<<chr1, 0, 0>>, <<chr2, 1, 1>>, <<chr1, 1, 1>>>>

\* Every sorted list of at most MaxFeatures different features of the pool,
\* and the list that is not sorted.
FeatureLists ==
    {fs \in UNION {[1..n -> FeaturePool] : n \in 0..MaxFeatures} :
        IsSortedFeatures(fs) /\ NoRepeat(fs)}
    \cup {Interleaved}

\* No valid barcode, or two of them, listed against their lexical order.
ValidBcLists == {<<>>, <<bc2, bc1>>}

bc3 == <<"b", "c", "3">>

\* The fragments a file may hold, each on a 4-column line: bc1 on chr1 over
\* every interval and on chr2 over the points, bc2 on chr1, a barcode that
\* is never valid, a chromosome that never has a feature.
Fragments ==
    {Fragment(chr1, iv[1], iv[2], bc1, FALSE) : iv \in CoordIntervals}
    \cup {Fragment(chr2, iv[1], iv[2], bc1, FALSE) : iv \in PointIntervals}
    \cup {Fragment(chr1, iv[1], iv[2], bc2, FALSE) : iv \in TailIntervals}
    \cup {Fragment(chr1, 1, 1, bc3, FALSE),
          Fragment(chr3, 1, 1, bc1, FALSE)}

\* ------------------------------------------------------------ the file
\* Closed-interval overlap of a fragment and a feature on the same chromosome.
Overlaps(frag, feature) ==
    /\ frag.chrom = feature[1]
    /\ frag.stop >= feature[2]
    /\ frag.start <= feature[3]

KeyLe(a, b) == a[1] < b[1] \/ (a[1] = b[1] /\ a[2] <= b[2])

\* <<rank, start>> of a fragment; one on a chromosome without a rank has no
\* place in the order and leaves the key as it is.
SortKey(frag) ==
    IF frag.chrom \in DOMAIN chrom_mapping
    THEN <<chrom_mapping[frag.chrom], frag.start>>
    ELSE sort_key

\* n_overlaps with a fragment counted: one more in each cell of its barcode's
\* row whose feature it overlaps, if its barcode is valid.
Counted(frag) ==
    IF frag.barcode \in valid_bcs_set
    THEN [n_overlaps EXCEPT ![bc_mapping[frag.barcode] + 1] =
            [j \in 1..Len(features) |->
                @[j] + IF Overlaps(frag, features[j]) THEN 1 ELSE 0]]
    ELSE n_overlaps

\* The file's side of a line passing by. A file that is in order holds its
\* ranked fragments by rank, then start; for such a file the model keeps the
\* last key and, per cell, the fragments that overlap.
FilePasses(rec) ==
    /\ IsComment(rec) => check_for_comments /\ pc = "loop"
    /\ n_lines' = n_lines + 1
    /\ UNCHANGED <<fh, in_order>>
    /\ IF in_order /\ ~IsComment(rec)
       THEN /\ KeyLe(sort_key, SortKey(rec))
            /\ sort_key' = SortKey(rec)
            /\ n_overlaps' = Counted(rec)
       ELSE UNCHANGED <<sort_key, n_overlaps>>

\* ------------------------------------------------------------ count()
inputs == <<features, valid_bcs, fast, chrom_mapping, bc_mapping>>
gb_vars == <<barcodes, gb_check_for_comments, gb_use_strip>>

\* count() up to the loop, and get_barcodes() up to its loop.
Start(feats, bcs, fastflag, file, sorted) ==
    /\ features = feats
    /\ valid_bcs = bcs
    /\ fast = fastflag
    /\ check_for_comments = TRUE
    /\ use_strip = None
    /\ feature_idx = 0
    /\ chrom_mapping = ChromMapping(feats, <<>>)
    /\ bc_mapping = BcMapping(bcs)
    /\ count_mtx = IF fastflag THEN DenseNew(Len(bcs), Len(feats)) ELSE None
    /\ count_mtx_sparse = IF fastflag THEN None ELSE LilNew(Len(bcs), Len(feats))
    /\ pc = "loop"
    /\ barcodes = {}
    /\ gb_check_for_comments = TRUE
    /\ gb_use_strip = None
    /\ fh = file
    /\ n_lines = 0
    /\ sort_key = <<0, 0>>
    /\ in_order = sorted
    /\ n_overlaps = DenseNew(Len(bcs), Len(feats))

\* The table of the backend in use.
Table == IF fast THEN count_mtx ELSE count_mtx_sparse

\* count() reads the next line of the file and runs the loop body on it.
CountLine(line) ==
    /\ pc = "loop"
    /\ \E out \in {LoopBody(fast, feature_idx, Table, use_strip,
                             check_for_comments, line)} :
           /\ feature_idx' = out.feature_idx
           /\ use_strip' = out.use_strip
           /\ check_for_comments' = out.check_for_comments
           /\ count_mtx' = IF fast THEN out.mtx ELSE count_mtx
           /\ count_mtx_sparse' = IF fast THEN count_mtx_sparse ELSE out.mtx
           /\ pc' = IF out.exit = "continue" THEN "loop" ELSE out.exit
    /\ UNCHANGED inputs

\* get_barcodes() reads the next line of the file.
BarcodesLine(line) ==
    \E out \in {BarcodeOf(gb_use_strip, gb_check_for_comments, line)} :
        /\ barcodes' = IF out.skipped THEN barcodes ELSE barcodes \cup {out.bc}
        /\ gb_use_strip' = out.use_strip
        /\ gb_check_for_comments' = out.check_for_comments

\* The next line of the file is rec and count() reads it.
ReadLine(rec) ==
    /\ FilePasses(rec)
    /\ CountLine(rec.line)

\* The next line of the file is rec, behind the point where the loop broke:
\* count() never reads it.
Unread(rec) ==
    /\ pc = "break"
    /\ FilePasses(rec)
    /\ UNCHANGED <<inputs, feature_idx, count_mtx, count_mtx_sparse,
                   check_for_comments, use_strip, pc>>

\* fh.close() and the return of the table, at the end of the file or after a break.
Return ==
    /\ pc \in {"loop", "break"}
    /\ n_lines >= Len(fh)
    /\ pc' = "return"
    /\ UNCHANGED <<inputs, feature_idx, count_mtx, count_mtx_sparse,
                   check_for_comments, use_strip, gb_vars,
                   fh, n_lines, sort_key, in_order, n_overlaps>>

\* ------------------------------------------- files drawn as they are read
\* count() on a file of at most MaxLines lines in any order, the barcodes
\* given by the caller.
Init ==
    \E fs \in FeatureLists, bcs \in ValidBcLists, f \in BOOLEAN :
        Start(fs, bcs, f, <<>>, FALSE)

Next ==
    \/ \E rec \in Fragments :
           n_lines < MaxLines /\ ReadLine(rec) /\ UNCHANGED gb_vars
    \/ \E rec \in Fragments :
           n_lines < MaxLines /\ Unread(rec) /\ UNCHANGED gb_vars
    \/ Return

Spec == Init /\ [][Next]_vars

\* The same on a file that is in order.
InitSorted ==
    \E fs \in FeatureLists, bcs \in ValidBcLists, f \in BOOLEAN :
        Start(fs, bcs, f, <<>>, TRUE)

SpecSorted == InitSorted /\ [][Next]_vars

\* ------------------------------------------------------------ given files
\* At most MaxGiven lines.
MaxGiven == 3

\* The feature lists of the given runs.
AdjacentFeatures == <<<<chr1, 100, 150>>, <<chr1, 140, 160>>, <<chr1, 155, 300>>>>
BoundaryFeature == <<<<chr1, 200, 300>>>>
SingleFeature == <<<<chr1, 0, 100>>>>
TwoChromosomes == <<<<chr1, 0, 100>>, <<chr2, 0, 100>>>>
Unsorted == <<<<chr1, 0, 100>>, <<chr2, 0, 100>>, <<chr1, 150, 160>>>>

GivenFeatureLists ==
    {AdjacentFeatures, BoundaryFeature, SingleFeature, TwoChromosomes, Unsorted}

\* The lines of the given files.
Inside == Fragment(chr1, 145, 145, bc1, FALSE)
TouchingStart == Fragment(chr1, 100, 200, bc1, FALSE)
InFront == Fragment(chr1, 100, 199, bc1, FALSE)
TouchingStop == Fragment(chr1, 300, 350, bc1, FALSE)
First == Fragment(chr1, 50, 60, bc1, FALSE)
Second == Fragment(chr1, 200, 210, bc1, FALSE)
Third == Fragment(chr2, 10, 20, bc1, FALSE)
Fourth == Fragment(chr2, 200, 210, bc1, FALSE)
FiveColumns == Fragment(chr1, 50, 60, bc1, TRUE)

GivenLines ==
    {Inside, TouchingStart, InFront, TouchingStop, First, Second, Third, Fourth,
     FiveColumns, CommentLine}

\* Every file of at most MaxGiven of these lines, comment lines at its head only.
GivenFiles ==
    {file \in UNION {[1..n -> GivenLines] : n \in 0..MaxGiven} :
        \A k \in 2..Len(file) : IsComment(file[k]) => IsComment(file[k - 1])}

\* get_barcodes() and count() on the same given file, line by line.
InitGiven ==
    \E fs \in GivenFeatureLists, f \in BOOLEAN, file \in GivenFiles :
        Start(fs, <<bc1>>, f, file, FALSE)

GivenRead ==
    /\ n_lines < Len(fh)
    /\ ReadLine(fh[n_lines + 1])
    /\ BarcodesLine(fh[n_lines + 1].line)

GivenUnread ==
    /\ n_lines < Len(fh)
    /\ Unread(fh[n_lines + 1])
    /\ BarcodesLine(fh[n_lines + 1].line)

NextGiven ==
    \/ GivenRead
    \/ GivenUnread
    \/ Return

SpecGiven == InitGiven /\ [][NextGiven]_vars

\* ------------------------------------------------------------ properties
\* The returned table cell by cell, whichever backend holds it.
Cells == IF fast THEN count_mtx ELSE toarray(count_mtx_sparse)

\* The sum of column j (0-based) of a table of cells.
RECURSIVE ColumnTotal(_, _, _)
ColumnTotal(M, j, n_rows) ==
    IF n_rows = 0 THEN 0 ELSE M[n_rows][j + 1] + ColumnTotal(M, j, n_rows - 1)

\* No feature is followed on its chromosome by one with a smaller stop.
StopsNonDecreasing(fs) ==
    \A i \in 1..Len(fs) : \A j \in (i + 1)..Len(fs) :
        fs[i][1] = fs[j][1] => fs[i][3] <= fs[j][3]

\* C1: with sorted features and a file in order, when count() has returned
\* the hits of each feature, summed over the barcodes, are as many as the
\* fragments of the file with a valid barcode that overlap the feature on its
\* chromosome, nested features included.
C1_FeatureTotals ==
    (pc = "return" /\ in_order /\ IsSortedFeatures(features)) =>
        \A j \in 0..(Len(features) - 1) :
            ColumnTotal(Cells, j, Len(valid_bcs))
                = ColumnTotal(n_overlaps, j, Len(valid_bcs))

\* C10: with sorted features whose stops do not decrease within a chromosome
\* and a file in order, every cell of the table is the number of fragments
\* with the cell's barcode that overlap the cell's feature on its chromosome,
\* after every line and when count() has returned.
C10_ExactCells ==
    (in_order /\ IsSortedFeatures(features) /\ StopsNonDecreasing(features)) =>
        Cells = n_overlaps

\* C10 is met by a run that has returned with a cell hit twice, a second
\* feature hit by the follow-up and the cursor moved.
C10_Reached ==
    /\ in_order /\ IsSortedFeatures(features) /\ StopsNonDecreasing(features)
    /\ pc = "return"
    /\ feature_idx > 0
    /\ \E i \in 1..Len(valid_bcs) : \E j \in 1..(Len(features) - 1) :
           Cells[i][j] = 2 /\ Cells[i][j + 1] >= 1

\* The lowest column (0-based) in which two tables of cells differ.
FirstChanged(M, N) ==
    CHOOSE j \in 0..(Len(features) - 1) :
        /\ \E i \in 1..Len(M) : M[i][j + 1] # N[i][j + 1]
        /\ \A k \in 0..(j - 1) : \A i \in 1..Len(M) : M[i][k + 1] = N[i][k + 1]

\* C8: feature_idx starts at 0 and no line of any file, in order or not,
\* moves it back; a line that is counted leaves it on the first feature it
\* hit, the follow-up over the further features does not move it.
C8_CursorMonotone ==
    /\ feature_idx = 0
    /\ [][/\ feature_idx' >= feature_idx
          /\ Cells' # Cells => feature_idx' = FirstChanged(Cells, Cells')]_vars

\* C8 is met where the cursor has moved and the follow-up has hit a feature
\* behind the cursor's.
C8_Reached ==
    /\ pc = "loop"
    /\ feature_idx > 0
    /\ \E i \in 1..Len(valid_bcs) : \E j \in 0..(Len(features) - 1) :
           j > feature_idx /\ Cells[i][j + 1] > 0 /\ Cells[i][feature_idx + 1] > 0

\* C9: with no feature or no valid barcode count() reads the whole file
\* without indexing features or the table out of range and without breaking,
\* and its table has len(valid_bcs) rows of len(features) cells, all zero.
C9_Degenerate ==
    (features = <<>> \/ valid_bcs = <<>>) =>
        /\ pc \in {"loop", "return"}
        /\ Cells = DenseNew(Len(valid_bcs), Len(features))
        /\ ~fast => count_mtx_sparse.shape = <<Len(valid_bcs), Len(features)>>

\* C9 is met by a run without features that has read a full file and returned.
C9_Reached ==
    /\ features = <<>>
    /\ valid_bcs # <<>>
    /\ n_lines = MaxLines
    /\ pc = "return"

\* --------------------------------------------- properties of given files
\* count() replayed over the first k lines of the given file with either
\* backend; with trim, as if use_strip were True on every line.
RECURSIVE Replay(_, _, _)
Replay(fastflag, trim, k) ==
    IF k = 0
    THEN Outcome(0,
                 IF fastflag THEN DenseNew(Len(valid_bcs), Len(features))
                             ELSE LilNew(Len(valid_bcs), Len(features)),
                 None, TRUE, "continue")
    ELSE LET before == Replay(fastflag, trim, k - 1)
         IN  IF before.exit # "continue" THEN before
             ELSE LoopBody(fastflag, before.feature_idx, before.mtx,
                           IF trim THEN True ELSE before.use_strip,
                           before.check_for_comments, fh[k].line)

\* The data lines among the lines passed so far.
DataLines == {k \in 1..n_lines : ~IsComment(fh[k])}

\* C2 as the code has it: features [100,150], [140,160], [155,300] and the one
\* fragment [145,145] give one hit each to the first two features and none
\* to the third, which starts behind the fragment.
C2_TwoFeaturesHit ==
    (features = AdjacentFeatures /\ fh = <<Inside>> /\ pc = "return") =>
        Cells = <<<<1, 1, 0>>>>

\* C2 as stated: the fragment [145,145] gives one hit to each of the three
\* features.
C2_ThreeFeaturesHit ==
    (features = AdjacentFeatures /\ fh = <<Inside>> /\ pc = "return") =>
        Cells = <<<<1, 1, 1>>>>

\* C2 is met by the run on the three features that has read the fragment.
C2_Reached ==
    /\ features = AdjacentFeatures
    /\ fh = <<Inside>>
    /\ pc = "return"
    /\ n_lines = 1
    /\ Cells[1][1] = 1

\* C3: on a file whose data lines have four fields or more, get_barcodes()
\* has collected, of every data line passed, the barcode as written, without
\* the line ending, and nothing else, and the table of count() is the table
\* of a count() that trims every line.
C3_TrimIsOptimization ==
    /\ barcodes = {fh[k].barcode : k \in DataLines}
    /\ Table = Replay(fast, TRUE, n_lines).mtx

\* C4: on the same file, features and barcodes the dense and the sparse
\* backend hold the same value in every cell after every line, and the run
\* is the replay of its backend.
C4_BackendsAgree ==
    /\ toarray(Replay(FALSE, FALSE, n_lines).mtx) = Replay(TRUE, FALSE, n_lines).mtx
    /\ Table = Replay(fast, FALSE, n_lines).mtx

\* C4 is met by a sparse run that has returned with a cell incremented twice
\* and two cells of a row stored.
C4_Reached ==
    /\ ~fast
    /\ pc = "return"
    /\ n_lines >= 2
    /\ \E i \in 1..Len(valid_bcs) :
           /\ Len(count_mtx_sparse.rows[i]) >= 2
           /\ \E k \in 1..Len(count_mtx_sparse.data[i]) : count_mtx_sparse.data[i][k] = 2

\* C5: against the one feature [200,300] the fragment [100,200] is one hit,
\* the fragment [100,199] is none, the fragment [300,350] is one hit.
C5_ClosedOverlap ==
    (features = BoundaryFeature /\ pc = "return") =>
        /\ fh = <<TouchingStart>> => Cells = <<<<1>>>>
        /\ fh = <<InFront>> => Cells = <<<<0>>>>
        /\ fh = <<TouchingStop>> => Cells = <<<<1>>>>

\* C5 is met by the run that has read the fragment [100,200].
C5_Reached ==
    /\ features = BoundaryFeature
    /\ fh = <<TouchingStart>>
    /\ pc = "return"
    /\ n_lines = 1
    /\ Cells[1][1] = 1

\* C6: the line that moves feature_idx to len(features) hits nothing and
\* breaks the loop; from then on no line changes the table or the cursor and
\* the loop is not entered again. The feature (chr1,0,100) and the fragments
\* (chr1,50,60), (chr1,200,210), (chr2,10,20) of bc1 return the table [[1]].
C6_Exhausted ==
    [][/\ (feature_idx < Len(features) /\ feature_idx' >= Len(features)) =>
              (Cells' = Cells /\ pc' = "break")
       /\ feature_idx >= Len(features) =>
              (Cells' = Cells /\ feature_idx' = feature_idx /\ pc' # "loop")
       /\ (features = SingleFeature /\ fh = <<First, Second, Third>> /\ pc' = "return") =>
              Cells' = <<<<1>>>>]_vars

\* C6 is met by the run on the three fragments that broke and returned.
C6_Reached ==
    /\ features = SingleFeature
    /\ fh = <<First, Second, Third>>
    /\ pc = "return"
    /\ n_lines = 3
    /\ feature_idx = Len(features)
    /\ Cells = <<<<1>>>>

\* The fragment's chromosome has a lower rank than the chromosome of features[idx].
LowerRank(rec, idx) ==
    /\ idx < Len(features)
    /\ rec.chrom \in DOMAIN chrom_mapping
    /\ chrom_mapping[rec.chrom] < chrom_mapping[features[idx + 1][1]]

\* C7: a line whose fragment is on a chromosome of lower rank than the
\* chromosome of the cursor's feature changes no cell and leaves feature_idx
\* where it is, wherever in the file the line stands.
C7_Discarded ==
    [][(pc = "loop" /\ n_lines < Len(fh) /\ LowerRank(fh[n_lines + 1], feature_idx)) =>
          (Cells' = Cells /\ feature_idx' = feature_idx)]_vars

\* C7 is met where the last line read is of a valid barcode, on a lower
\* chromosome than the cursor's, and overlaps a feature before the cursor.
C7_Reached ==
    /\ pc = "loop"
    /\ n_lines >= 2
    /\ LowerRank(fh[n_lines], feature_idx)
    /\ fh[n_lines].barcode \in valid_bcs_set
    /\ \E j \in 1..feature_idx : Overlaps(fh[n_lines], features[j])
    /\ Cells[1][feature_idx + 1] > 0
====
